---- MODULE Spec2Model ----
(***************************************************************************)
(* Exclusive XML canonicalization (package c14n): the Canonicalize driver  *)
(* (c14n.go), the namespace scope stack (internal/stack) and the           *)
(* document-order attribute comparator (internal/sortattr).                *)
(*                                                                         *)
(* Strings are sequences of byte values, so that Go's byte-wise string     *)
(* comparison and the byte substitutions of the escaper are computed, not  *)
(* assumed.  A map[string]T is a function whose domain is the key set.     *)
(***************************************************************************)
EXTENDS Integers, Sequences, FiniteSets, TLC

VARIABLES
    knownNames,     \* stack.Stack: declared namespaces of the input
    renderedNames,  \* stack.Stack: namespaces written to the output
    buf,            \* bytes.Buffer: the output buffer
    pc,             \* "loop" while the for loop runs, "done" after a return, "panic"
    ret,            \* the returned pair ([]byte, error) once pc = "done"
    requested,      \* number of RawToken calls made so far
    openElems,      \* the token source's open elements (names), innermost last
    last,           \* the last result delivered by RawToken and what was done with it
    wellFormed,     \* every StartElement delivered so far was namespace-well-formed
    elems,          \* number of StartElement tokens delivered so far
    vocab,          \* the family of documents the source tokenizes (an index)
    pkg,            \* the package-level variables of c14n.go: the escape tables
    peer            \* a second call of Canonicalize running at the same time

vars == <<knownNames, renderedNames, buf, pc, ret, requested, openElems, last, wellFormed, elems, vocab, pkg, peer>>

----------------------------------------------------------------------------
(* Bounds of the exploration.                                              *)

MaxTokens == 6
MaxDepth == 3
MaxAttrs == 2
\* The StartElements of a stream: as many elements as MaxTokens tokens can
\* open and close.
MaxElems == MaxTokens \div 2

----------------------------------------------------------------------------
(* Byte strings.                                                           *)

EmptyStr == <<>>
\* "xmlns"
strXmlns == <<120, 109, 108, 110, 115>>
\* "xml"
strXml == <<120, 109, 108>>

\* Go's s < t on strings: byte-wise lexicographic order.
RECURSIVE StrLess(_, _)
StrLess(s, t) ==
    IF t = <<>> THEN FALSE
    ELSE IF s = <<>> THEN TRUE
    ELSE IF Head(s) # Head(t) THEN Head(s) < Head(t)
    ELSE StrLess(Tail(s), Tail(t))

RECURSIVE Concat(_)
Concat(ss) == IF ss = <<>> THEN <<>> ELSE Head(ss) \o Concat(Tail(ss))

\* The values the escape tables are declared with.
amp == <<38>>
escAmp == <<38, 97, 109, 112, 59>>
lt == <<60>>
escLt == <<38, 108, 116, 59>>
gt == <<62>>
escGt == <<38, 103, 116, 59>>
cr == <<13>>
escCr == <<38, 35, 120, 68, 59>>
quot == <<34>>
escQuot == <<38, 113, 117, 111, 116, 59>>
tab == <<9>>
escTab == <<38, 35, 120, 57, 59>>
nl == <<10>>
escNl == <<38, 35, 120, 65, 59>>

\* bytes.ReplaceAll(s, old, new) for the one-byte patterns of the tables.
RECURSIVE ReplaceAll(_, _, _)
ReplaceAll(s, old, new) ==
    IF s = <<>> THEN <<>>
    ELSE IF <<Head(s)>> = old THEN new \o ReplaceAll(Tail(s), old, new)
    ELSE <<Head(s)>> \o ReplaceAll(Tail(s), old, new)

\* c14n.go 331-346: the initial value of the package-level variables.
Tables ==
    [amp |-> amp, escAmp |-> escAmp, lt |-> lt, escLt |-> escLt, gt |-> gt, escGt |-> escGt,
     cr |-> cr, escCr |-> escCr, quot |-> quot, escQuot |-> escQuot,
     tab |-> tab, escTab |-> escTab, nl |-> nl, escNl |-> escNl]

\* Mutant of EscapeAttr: the closing angle bracket is escaped as in text.
EscapeAttrMutEscGt(val) ==
    ReplaceAll(ReplaceAll(ReplaceAll(ReplaceAll(ReplaceAll(ReplaceAll(ReplaceAll(
        val, amp, escAmp), lt, escLt), gt, escGt), quot, escQuot), tab, escTab), nl, escNl), cr, escCr)

\* c14n.go 214-220: the attribute-value replacements, in the code's order.
EscapeAttr(val) ==
    ReplaceAll(ReplaceAll(ReplaceAll(ReplaceAll(ReplaceAll(ReplaceAll(
        val, pkg.amp, pkg.escAmp), pkg.lt, pkg.escLt), pkg.quot, pkg.escQuot),
        pkg.tab, pkg.escTab), pkg.nl, pkg.escNl), pkg.cr, pkg.escCr)

\* Mutant of EscapeText: the ampersand is replaced last, so the ampersands
\* of the other replacements are escaped again.
EscapeTextMutAmpLast(t) ==
    ReplaceAll(ReplaceAll(ReplaceAll(ReplaceAll(t, lt, escLt), gt, escGt), cr, escCr), amp, escAmp)

\* c14n.go 268-271: the text replacements, in the code's order.
EscapeText(t) ==
    ReplaceAll(ReplaceAll(ReplaceAll(ReplaceAll(
        t, pkg.amp, pkg.escAmp), pkg.lt, pkg.escLt), pkg.gt, pkg.escGt), pkg.cr, pkg.escCr)

----------------------------------------------------------------------------
(* internal/stack: type Stack []map[string]entry.                          *)

\* entry{value: v}: the used flag starts unset.
entry(v) == [value |-> v, used |-> FALSE]

\* Mutant of Push: the method has a value receiver, so the appended frame
\* is lost.
PushMutNoFrame(s, names) == s

\* Push appends one frame holding the given names, each unused.
Push(s, names) == Append(s, [k \in DOMAIN names |-> entry(names[k])])

\* Mutant of Pop: the slice drops its first element, the outermost frame.
PopMutOutermost(s) == SubSeq(s, 2, Len(s))

\* Pop drops the innermost frame; the caller checks StackLen(s) > 0 (the
\* slice expression panics otherwise).
Pop(s) == SubSeq(s, 1, Len(s) - 1)

StackLen(s) == Len(s)

\* The index of the innermost frame holding name, 0 when no frame does:
\* the loop "for i := len(*s) - 1; i >= 0; i--" of Get.
RECURSIVE FindFrame(_, _, _)
FindFrame(s, name, i) ==
    IF i = 0 THEN 0
    ELSE IF name \in DOMAIN s[i] THEN i
    ELSE FindFrame(s, name, i - 1)

\* Mutant of Get: the scan runs from the outermost frame inwards, so an
\* outer declaration shadows an inner one.
GetMutOutermost(s, name) ==
    LET holds == {i \in 1..Len(s) : name \in DOMAIN s[i]}
    IN IF holds = {} THEN EmptyStr
       ELSE s[CHOOSE i \in holds : \A j \in holds : i <= j][name].value

\* The value Get returns.
Get(s, name) ==
    LET i == FindFrame(s, name, Len(s))
    IN IF i = 0 THEN EmptyStr ELSE s[i][name].value

\* Mutant of GetMark: the entry is stored back as entry{used: true}, so its
\* value is lost.
GetMarkMutDropsValue(s, name) ==
    LET holds == {i \in 1..Len(s) : name \in DOMAIN s[i]}
    IN IF holds = {} THEN s
       ELSE [s EXCEPT ![CHOOSE i \in holds : \A j \in holds : j <= i][name] =
                          [value |-> EmptyStr, used |-> TRUE]]

\* Mutant of GetMark: every frame holding the name is marked, the shadowed
\* ones included.
GetMarkMutAllFrames(s, name) ==
    [i \in 1..Len(s) |->
        [k \in DOMAIN s[i] |-> IF k = name THEN [s[i][k] EXCEPT !.used = TRUE] ELSE s[i][k]]]

\* The stack after Get: the resolving entry is marked used.
GetMark(s, name) ==
    LET i == FindFrame(s, name, Len(s))
    IN IF i = 0 THEN s ELSE [s EXCEPT ![i][name].used = TRUE]

\* The second result of Get as c14n.go and sortattr.go call it
\* (value, ok := Get(name)): whether some frame holds name.
GetOk(s, name) == FindFrame(s, name, Len(s)) # 0

\* The stack after Get was called once for every name of a set (marking used
\* is idempotent and order-independent, as each call touches one entry).
RECURSIVE GetMarkAll(_, _)
GetMarkAll(s, names) ==
    IF names = {} THEN s
    ELSE LET n == CHOOSE n \in names : TRUE
         IN GetMarkAll(GetMark(s, n), names \ {n})

\* GetAll: every name resolvable on the stack, with its nearest value.
GetAll(s) ==
    LET keys == UNION {DOMAIN s[i] : i \in 1..Len(s)}
    IN [k \in keys |-> s[FindFrame(s, k, Len(s))][k].value]

\* Peek: the innermost frame's bindings, nil (modelled as "nil") when empty.
Peek(s) ==
    IF StackLen(s) = 0 THEN "nil"
    ELSE [k \in DOMAIN s[Len(s)] |-> s[Len(s)][k].value]

\* Used (stack.go 51-62): the entries marked used, over all frames; a later
\* (inner) frame overwrites an outer one for the same name.
Used(s) ==
    LET keys == {k \in UNION {DOMAIN s[i] : i \in 1..Len(s)} :
                    \E i \in 1..Len(s) : k \in DOMAIN s[i] /\ s[i][k].used}
        top(k) == CHOOSE i \in 1..Len(s) :
                    /\ k \in DOMAIN s[i] /\ s[i][k].used
                    /\ \A j \in (i+1)..Len(s) : ~(k \in DOMAIN s[j] /\ s[j][k].used)
    IN [k \in keys |-> s[top(k)][k].value]

----------------------------------------------------------------------------
(* internal/sortattr: SortAttr{Stack, Attrs} and sort.Sort.                *)

IsDefaultNs(a) == a.Name.Space = EmptyStr /\ a.Name.Local = strXmlns
IsNsNode(a) == a.Name.Space = strXmlns

\* Mutant of Less: namespace nodes are not put before ordinary attributes
\* and compare by value instead of by name.
LessMutNsNodes(s, i, j) ==
    LET ai == s.Attrs[i]
        aj == s.Attrs[j]
    IN IF IsDefaultNs(ai) THEN [less |-> TRUE, Stack |-> s.Stack]
       ELSE IF IsDefaultNs(aj) THEN [less |-> FALSE, Stack |-> s.Stack]
       ELSE IF IsNsNode(ai) /\ IsNsNode(aj)
            THEN [less |-> StrLess(ai.Value, aj.Value), Stack |-> s.Stack]
       ELSE [less |-> StrLess(ai.Name.Local, aj.Name.Local), Stack |-> s.Stack]

\* Mutant of Less: ordinary attributes compare by prefix, not by the URI the
\* prefix resolves to.
LessMutByPrefix(s, i, j) ==
    LET ai == s.Attrs[i]
        aj == s.Attrs[j]
    IN IF IsDefaultNs(ai) THEN [less |-> TRUE, Stack |-> s.Stack]
       ELSE IF IsDefaultNs(aj) THEN [less |-> FALSE, Stack |-> s.Stack]
       ELSE IF IsNsNode(ai) /\ ~IsNsNode(aj) THEN [less |-> TRUE, Stack |-> s.Stack]
       ELSE IF ~IsNsNode(ai) /\ IsNsNode(aj) THEN [less |-> FALSE, Stack |-> s.Stack]
       ELSE IF IsNsNode(ai) /\ IsNsNode(aj)
            THEN [less |-> StrLess(ai.Name.Local, aj.Name.Local), Stack |-> s.Stack]
       ELSE IF ai.Name.Space # aj.Name.Space
            THEN [less |-> StrLess(ai.Name.Space, aj.Name.Space), Stack |-> s.Stack]
       ELSE [less |-> StrLess(ai.Name.Local, aj.Name.Local), Stack |-> s.Stack]

\* Less(i, j) on s = [Stack, Attrs]: the result and the stack it leaves
\* (the two Get calls of the last branch mark entries used).
Less(s, i, j) ==
    LET ai == s.Attrs[i]
        aj == s.Attrs[j]
    IN IF IsDefaultNs(ai) THEN [less |-> TRUE, Stack |-> s.Stack]
       ELSE IF IsDefaultNs(aj) THEN [less |-> FALSE, Stack |-> s.Stack]
       ELSE IF IsNsNode(ai) /\ ~IsNsNode(aj) THEN [less |-> TRUE, Stack |-> s.Stack]
       ELSE IF ~IsNsNode(ai) /\ IsNsNode(aj) THEN [less |-> FALSE, Stack |-> s.Stack]
       ELSE IF IsNsNode(ai) /\ IsNsNode(aj)
            THEN [less |-> StrLess(ai.Name.Local, aj.Name.Local), Stack |-> s.Stack]
       ELSE LET spaceI == Get(s.Stack, ai.Name.Space)
                spaceJ == Get(s.Stack, aj.Name.Space)
                st == GetMark(GetMark(s.Stack, ai.Name.Space), aj.Name.Space)
            IN IF spaceI # spaceJ
               THEN [less |-> StrLess(spaceI, spaceJ), Stack |-> st]
               ELSE [less |-> StrLess(ai.Name.Local, aj.Name.Local), Stack |-> st]

Swap(s, i, j) ==
    [s EXCEPT !.Attrs = [s.Attrs EXCEPT ![i] = s.Attrs[j], ![j] = s.Attrs[i]]]

\* The inner loop of sort.Sort's insertion sort (the algorithm sort.Sort runs
\* on fewer than 12 elements):
\*   for j := i; j > a && data.Less(j, j-1); j-- { data.Swap(j, j-1) }
RECURSIVE InsertDown(_, _)
InsertDown(s, j) ==
    IF j <= 1 THEN s
    ELSE LET r == Less(s, j, j - 1)
             s1 == [s EXCEPT !.Stack = r.Stack]
         IN IF r.less THEN InsertDown(Swap(s1, j, j - 1), j - 1) ELSE s1

\*   for i := a + 1; i < b; i++ { ... }
RECURSIVE InsertionSort(_, _)
InsertionSort(s, i) ==
    IF i > Len(s.Attrs) THEN s ELSE InsertionSort(InsertDown(s, i), i + 1)

\* Mutant of Sort: the attributes are left in the order they were gathered.
SortMutNone(s) == s

\* sort.Sort(sortAttr): the sorted attributes and the stack after the sort.
Sort(s) == InsertionSort(s, 2)

----------------------------------------------------------------------------
(* Tokens (encoding/xml): one record shape for every token kind.           *)

Name(space, local) == [Space |-> space, Local |-> local]
NoName == Name(EmptyStr, EmptyStr)
Attr(space, local, value) == [Name |-> Name(space, local), Value |-> value]

StartElementTok(name, attrs) ==
    [kind |-> "StartElement", Name |-> name, Attr |-> attrs, Data |-> EmptyStr,
     Target |-> EmptyStr, Inst |-> EmptyStr]
EndElementTok(name) ==
    [kind |-> "EndElement", Name |-> name, Attr |-> <<>>, Data |-> EmptyStr,
     Target |-> EmptyStr, Inst |-> EmptyStr]
CharDataTok(data) ==
    [kind |-> "CharData", Name |-> NoName, Attr |-> <<>>, Data |-> data,
     Target |-> EmptyStr, Inst |-> EmptyStr]
ProcInstTok(target, inst) ==
    [kind |-> "ProcInst", Name |-> NoName, Attr |-> <<>>, Data |-> EmptyStr,
     Target |-> target, Inst |-> inst]
\* xml.Comment and xml.Directive: kinds the type switch has no case for.
OtherTok(kind) ==
    [kind |-> kind, Name |-> NoName, Attr |-> <<>>, Data |-> EmptyStr,
     Target |-> EmptyStr, Inst |-> EmptyStr]

----------------------------------------------------------------------------
(* c14n.go: the pieces of the StartElement case.                           *)

\* getNamespace: the namespace an attribute declares, and whether it is a
\* namespace-declaring attribute.
getNamespace(attr) ==
    IF attr.Name.Space = EmptyStr /\ attr.Name.Local = strXmlns
    THEN [name |-> EmptyStr, ok |-> TRUE]
    ELSE IF attr.Name.Space = strXmlns
    THEN [name |-> attr.Name.Local, ok |-> TRUE]
    ELSE [name |-> EmptyStr, ok |-> FALSE]

\* names (lines 55-65): names[name] = attr.Value in attribute order, so the
\* last declaration of a name wins.
DeclaredNames(attrs) ==
    LET decl == {i \in 1..Len(attrs) : getNamespace(attrs[i]).ok}
        keys == {getNamespace(attrs[i]).name : i \in decl}
        lastOf(k) == CHOOSE i \in decl :
                        /\ getNamespace(attrs[i]).name = k
                        /\ \A j \in decl : getNamespace(attrs[j]).name = k => j <= i
    IN [k \in keys |-> attrs[lastOf(k)].Value]

\* visiblyUsedNames (lines 56-65): the element's prefix and the prefix of
\* every attribute that declares no namespace.
VisiblyUsedNames(t) ==
    {t.Name.Space} \cup
    {t.Attr[i].Name.Space : i \in {j \in 1..Len(t.Attr) : ~getNamespace(t.Attr[j]).ok}}

\* Mutant of ShouldRender: the general case forgets "visibly used".
ShouldRenderMutNoVisible(name, uri, names, visiblyUsedNames, previousDefaultNamespace, rendered) ==
    IF name = EmptyStr /\ uri = EmptyStr
    THEN /\ name \in visiblyUsedNames
         /\ (~(EmptyStr \in DOMAIN names) \/ names[EmptyStr] # previousDefaultNamespace)
         /\ GetOk(rendered, EmptyStr)
    ELSE ~GetOk(rendered, name) \/ Get(rendered, name) # uri

\* Mutant of ShouldRender: the xmlns="" case forgets the element's own
\* declaration.
ShouldRenderMutNoDeclared(name, uri, names, visiblyUsedNames, previousDefaultNamespace, rendered) ==
    IF name = EmptyStr /\ uri = EmptyStr
    THEN /\ EmptyStr \in visiblyUsedNames
         /\ GetOk(rendered, EmptyStr)
    ELSE /\ name \in visiblyUsedNames
         /\ (~GetOk(rendered, name) \/ Get(rendered, name) # uri)

\* shouldRender (lines 77-117) for one (name, uri) of knownNames.GetAll();
\* rendered is renderedNames before this element's frame is pushed.
ShouldRender(name, uri, names, visiblyUsedNames, previousDefaultNamespace, rendered) ==
    IF name = EmptyStr /\ uri = EmptyStr
    THEN /\ EmptyStr \in visiblyUsedNames
         /\ (~(EmptyStr \in DOMAIN names) \/ names[EmptyStr] # previousDefaultNamespace)
         /\ GetOk(rendered, EmptyStr)
    ELSE /\ name \in visiblyUsedNames
         /\ (~GetOk(rendered, name) \/ Get(rendered, name) # uri)

\* The loop of lines 76-122 run over the resolved names in the order seq
\* (the order the range statement delivers the map in): each iteration calls
\* renderedNames.Get for its name, which marks the resolving entry, and adds
\* the name to namesToRender when shouldRender is set.
RECURSIVE RenderLoop(_, _, _, _, _, _, _)
RenderLoop(seq, all, names, visiblyUsedNames, previousDefaultNamespace, rendered, acc) ==
    IF seq = <<>> THEN [renderedNames |-> rendered, namesToRender |-> acc]
    ELSE LET name == Head(seq)
             shouldRender == ShouldRender(name, all[name], names, visiblyUsedNames,
                                          previousDefaultNamespace, rendered)
         IN RenderLoop(Tail(seq), all, names, visiblyUsedNames, previousDefaultNamespace,
                       GetMark(rendered, name),
                       IF shouldRender THEN acc \cup {name} ELSE acc)

\* Mutant of NamesToRender: a namespace the element declares is rendered on
\* it whether or not the element visibly uses it.
NamesToRenderMutDeclared(known, rendered, t) ==
    LET names == DeclaredNames(t.Attr)
        previousDefaultNamespace == Get(known, EmptyStr)
        all == GetAll(Push(GetMark(known, EmptyStr), names))
    IN {name \in DOMAIN all :
            \/ ShouldRender(name, all[name], names, VisiblyUsedNames(t),
                            previousDefaultNamespace, rendered)
            \/ name \in DOMAIN names /\ names[name] # EmptyStr}

\* namesToRender (lines 75-122).
NamesToRender(known, rendered, t) ==
    LET names == DeclaredNames(t.Attr)
        previousDefaultNamespace == Get(known, EmptyStr)
        all == GetAll(Push(GetMark(known, EmptyStr), names))
    IN {name \in DOMAIN all :
            ShouldRender(name, all[name], names, VisiblyUsedNames(t),
                         previousDefaultNamespace, rendered)}

\* Mutant of OrdinaryAttrs: the namespace-declaring attributes are not
\* filtered out.
OrdinaryAttrsMutKeepAll(attrs) == attrs

\* Lines 126-132: the attributes that declare no namespace, in input order.
RECURSIVE OrdinaryAttrs(_)
OrdinaryAttrs(attrs) ==
    IF attrs = <<>> THEN <<>>
    ELSE IF getNamespace(Head(attrs)).ok THEN OrdinaryAttrs(Tail(attrs))
    ELSE <<Head(attrs)>> \o OrdinaryAttrs(Tail(attrs))

\* Lines 141-151: the pseudo-attribute synthesized for a rendered name.
NsAttr(name, uri) ==
    IF name = EmptyStr THEN Attr(EmptyStr, strXmlns, uri) ELSE Attr(strXmlns, name, uri)

\* Mutant of QName: the prefix is dropped.
QNameMutLocalOnly(n) == n.Local

\* The QName written for an element or attribute name (lines 182-186,
\* 208-212, 237-241): local alone, or space ":" local.
QName(n) == IF n.Space = EmptyStr THEN n.Local ELSE n.Space \o <<58>> \o n.Local

\* Lines 208-223: one attribute as written: space, QName, =", value, ".
WriteAttr(attr) ==
    <<32>> \o QName(attr.Name) \o <<61, 34>> \o EscapeAttr(attr.Value) \o <<34>>

\* Mutant of StartElement: the frame pushed on the rendered stack holds the
\* names the element declares instead of the names written.
StartElementMutPushDeclared(st, t, order) ==
    LET names == DeclaredNames(t.Attr)
        known1 == Push(GetMark(st.knownNames, EmptyStr), names)
        all == GetAll(known1)
        rendered1 == GetMarkAll(st.renderedNames, DOMAIN all)
        known2 == GetMarkAll(known1, {order[i] : i \in 1..Len(order)})
        attrsToRender ==
            OrdinaryAttrs(t.Attr) \o
            [i \in 1..Len(order) |-> NsAttr(order[i], Get(known1, order[i]))]
        sorted == Sort([Stack |-> known2, Attrs |-> attrsToRender])
        tag == <<60>> \o QName(t.Name)
               \o Concat([i \in 1..Len(sorted.Attrs) |-> WriteAttr(sorted.Attrs[i])])
               \o <<62>>
    IN [knownNames |-> sorted.Stack,
        renderedNames |-> Push(rendered1, names),
        buf |-> st.buf \o tag,
        written |-> sorted.Attrs]

\* The StartElement case (lines 54-227) on st = [knownNames, renderedNames,
\* buf].  order enumerates namesToRender in the order the range over the map
\* delivers it (unspecified in Go).
StartElement(st, t, order) ==
    LET names == DeclaredNames(t.Attr)
        known1 == Push(GetMark(st.knownNames, EmptyStr), names)
        all == GetAll(known1)
        rendered1 == GetMarkAll(st.renderedNames, DOMAIN all)
        known2 == GetMarkAll(known1, {order[i] : i \in 1..Len(order)})
        renderedNameValues ==
            [n \in {order[i] : i \in 1..Len(order)} |-> Get(known1, n)]
        attrsToRender ==
            OrdinaryAttrs(t.Attr) \o
            [i \in 1..Len(order) |-> NsAttr(order[i], Get(known1, order[i]))]
        sorted == Sort([Stack |-> known2, Attrs |-> attrsToRender])
        tag == <<60>> \o QName(t.Name)
               \o Concat([i \in 1..Len(sorted.Attrs) |-> WriteAttr(sorted.Attrs[i])])
               \o <<62>>
    IN [knownNames |-> sorted.Stack,
        renderedNames |-> Push(rendered1, renderedNameValues),
        buf |-> st.buf \o tag,
        written |-> sorted.Attrs]

\* Mutant of EndElement: only the namespace stack is popped.
EndElementMutOnePop(st, t) ==
    [knownNames |-> Pop(st.knownNames),
     renderedNames |-> st.renderedNames,
     buf |-> st.buf \o <<60, 47>> \o QName(t.Name) \o <<62>>]

\* The EndElement case up to the Len check (lines 237-244).
EndElement(st, t) ==
    [knownNames |-> Pop(st.knownNames),
     renderedNames |-> Pop(st.renderedNames),
     buf |-> st.buf \o <<60, 47>> \o QName(t.Name) \o <<62>>]

\* "knownNames == nil": a Stack is nil until the first Push, and the loop
\* returns as soon as a Pop empties it, so inside the loop nil = empty.
IsNil(s) == s = <<>>

\* Mutant of CharData: text is written before the first StartElement too.
CharDataMutNoSkip(st, t) == [st EXCEPT !.buf = st.buf \o EscapeText(t.Data)]

\* The CharData case (lines 264-273).
CharData(st, t) ==
    IF IsNil(st.knownNames) THEN st
    ELSE [st EXCEPT !.buf = st.buf \o EscapeText(t.Data)]

\* Mutant of ProcInst: the target "xml" is written like any other.
ProcInstMutKeepXml(st, t) ==
    IF IsNil(st.knownNames) THEN st
    ELSE [st EXCEPT !.buf = st.buf \o <<60, 63>> \o t.Target
                            \o (IF Len(t.Inst) > 0 THEN <<32>> ELSE <<>>)
                            \o t.Inst \o <<63, 62>>]

\* The ProcInst case (lines 299-310).
ProcInst(st, t) ==
    IF IsNil(st.knownNames) THEN st
    ELSE IF t.Target # strXml
    THEN [st EXCEPT !.buf = st.buf \o <<60, 63>> \o t.Target
                            \o (IF Len(t.Inst) > 0 THEN <<32>> ELSE <<>>)
                            \o t.Inst \o <<63, 62>>]
    ELSE st

\* Mutants of HandleError: io.EOF passed through; the error replaced by a
\* wrapping error; the partial output returned with the error.
HandleErrorMutPassEOF(err) == [out |-> <<>>, outNil |-> TRUE, err |-> err]

HandleErrorMutWrap(err) ==
    IF err = "io.EOF"
    THEN [out |-> <<>>, outNil |-> TRUE, err |-> "io.ErrUnexpectedEOF"]
    ELSE [out |-> <<>>, outNil |-> TRUE, err |-> "c14n: read token failed"]

HandleErrorMutPartial(err) ==
    IF err = "io.EOF"
    THEN [out |-> buf, outNil |-> FALSE, err |-> "io.ErrUnexpectedEOF"]
    ELSE [out |-> buf, outNil |-> FALSE, err |-> err]

\* Lines 44-51: what the loop does when RawToken returns an error.
HandleError(err) ==
    IF err = "io.EOF"
    THEN [out |-> <<>>, outNil |-> TRUE, err |-> "io.ErrUnexpectedEOF"]
    ELSE [out |-> <<>>, outNil |-> TRUE, err |-> err]

\* Mutant of EndReturns: returns one level early.
EndReturnsMutEarly(known) == StackLen(known) <= 1

\* Lines 246-248: after the Pops, the loop returns when knownNames is empty.
EndReturns(known) == StackLen(known) = 0

----------------------------------------------------------------------------
(* The token source: what RawToken may deliver.                            *)

strE == <<101>>
strA == <<97>>
strB == <<98>>
strU == <<117>>
strV == <<118>>
strX == <<120>>
strP == <<112>>
str1 == <<49>>
strY == <<121>>
\* "&<>" CR LF TAB, the double quote and the apostrophe: every character an
\* escaper treats specially, and the two it must leave alone everywhere.
strSpecial == <<38, 60, 62, 13, 10, 9, 34, 39>>
\* "&lt;": input text that already reads like an entity reference.
strEntity == <<38, 108, 116, 59>>

\* Attribute lists of at most MaxAttrs attributes of a set, with distinct
\* names, in every order.
AttrLists(universe) ==
    UNION {{as \in [1..n -> universe] :
                \A i, j \in 1..n : i # j => as[i].Name # as[j].Name} : n \in 0..MaxAttrs}

\* The families of documents the source may tokenize.  Each family fixes the
\* element prefixes, the attributes and the other tokens its documents are
\* made of; within a family every stream of at most MaxTokens tokens, nested
\* at most MaxDepth deep, is delivered.
Vocabularies ==
    << \* content: text, processing instructions, comments, directives
       [prefixes |-> {EmptyStr},
        attrs |-> {Attr(EmptyStr, strX, str1)},
        misc |-> {CharDataTok(<<116>>), ProcInstTok(strXml, strV), ProcInstTok(strP, <<>>),
                  ProcInstTok(strP, strX), OtherTok("Comment"), OtherTok("Directive")}],
       \* the default namespace, declared and cancelled, beside one prefix
       [prefixes |-> {EmptyStr, strA},
        attrs |-> {Attr(EmptyStr, strXmlns, EmptyStr), Attr(EmptyStr, strXmlns, strU),
                   Attr(strXmlns, strA, strU)},
        misc |-> {}],
       \* one prefix: declared, redeclared, used by elements and attributes
       [prefixes |-> {EmptyStr, strA},
        attrs |-> {Attr(strXmlns, strA, strU), Attr(strXmlns, strA, strV),
                   Attr(strA, strX, str1), Attr(strA, strY, str1)},
        misc |-> {}],
       \* default namespace and a prefix together
       [prefixes |-> {EmptyStr},
        attrs |-> {Attr(EmptyStr, strXmlns, strV), Attr(strXmlns, strA, strU),
                   Attr(strXmlns, strA, strV),
                   Attr(EmptyStr, strX, str1), Attr(strA, strX, str1)},
        misc |-> {}],
       \* two prefixes
       [prefixes |-> {EmptyStr},
        attrs |-> {Attr(strXmlns, strA, strV), Attr(strXmlns, strB, strU),
                   Attr(strA, strX, str1), Attr(strB, strY, str1)},
        misc |-> {}],
       \* special characters in text, attribute values and namespace URIs
       [prefixes |-> {EmptyStr},
        attrs |-> {Attr(EmptyStr, strX, strSpecial), Attr(EmptyStr, strXmlns, strSpecial)},
        misc |-> {CharDataTok(strSpecial), CharDataTok(strEntity)}] >>

ElemNames == {Name(p, strE) : p \in Vocabularies[vocab].prefixes}
StartTokens ==
    {StartElementTok(n, as) : n \in ElemNames, as \in AttrLists(Vocabularies[vocab].attrs)}
CharDataTokens == {t \in Vocabularies[vocab].misc : t.kind = "CharData"}
ProcInstTokens == {t \in Vocabularies[vocab].misc : t.kind = "ProcInst"}
OtherTokens == {t \in Vocabularies[vocab].misc : t.kind \in {"Comment", "Directive"}}
SourceErrors == {"io.EOF", "xml.SyntaxError"}

\* Whether StartElement t is namespace-well-formed in the scope known (the
\* namespace stack once t's declarations are pushed): every prefix it uses is
\* declared, and no two of its prefixed attributes have the same local name
\* and the same namespace URI.  The source does not check this.
NsWellFormed(known, t) ==
    /\ \A p \in VisiblyUsedNames(t) \ {EmptyStr} : GetOk(known, p)
    /\ \A i, j \in 1..Len(t.Attr) :
          (/\ i # j
           /\ ~getNamespace(t.Attr[i]).ok /\ ~getNamespace(t.Attr[j]).ok
           /\ t.Attr[i].Name.Space # EmptyStr /\ t.Attr[j].Name.Space # EmptyStr
           /\ t.Attr[i].Name.Local = t.Attr[j].Name.Local)
          => Get(known, t.Attr[i].Name.Space) # Get(known, t.Attr[j].Name.Space)

\* Every enumeration of a finite set S as a sequence.
Perms(S) ==
    {f \in [1..Cardinality(S) -> S] : \A i, j \in 1..Cardinality(S) : i # j => f[i] # f[j]}

----------------------------------------------------------------------------
(* The state machine: one action per outcome of RawToken.                  *)

NoRet == [out |-> <<>>, outNil |-> TRUE, err |-> "nil"]
NoTok == OtherTok("none")
\* No second call is running.
NoPeer ==
    [knownNames |-> <<>>, renderedNames |-> <<>>, buf |-> <<>>, pc |-> "none",
     ret |-> NoRet, toks |-> <<>>]
State == [knownNames |-> knownNames, renderedNames |-> renderedNames, buf |-> buf]

Init ==
    /\ knownNames = <<>>
    /\ renderedNames = <<>>
    /\ buf = <<>>
    /\ pc = "loop"
    /\ ret = NoRet
    /\ requested = 0
    /\ openElems = <<>>
    /\ wellFormed = TRUE
    /\ elems = 0
    /\ vocab \in 1..Len(Vocabularies)
    /\ last = [res |-> "none", tok |-> NoTok, err |-> "nil", written |-> <<>>,
               pre |-> [knownNames |-> <<>>, renderedNames |-> <<>>, buf |-> <<>>]]
    /\ pkg = Tables
    /\ peer = NoPeer

\* RawToken returns an error (io.EOF included): lines 44-51.
RawTokenError ==
    /\ pc = "loop"
    /\ requested < MaxTokens
    /\ \E e \in SourceErrors :
        /\ ret' = HandleError(e)
        /\ last' = [res |-> "error", tok |-> NoTok, err |-> e, written |-> <<>>, pre |-> State]
    /\ pc' = "done"
    /\ requested' = requested + 1
    /\ UNCHANGED <<knownNames, renderedNames, buf, openElems, wellFormed, elems, vocab, pkg, peer>>

\* case xml.StartElement.
OnStartElement ==
    /\ pc = "loop"
    /\ requested < MaxTokens
    /\ Len(openElems) < MaxDepth
    /\ elems < MaxElems
    /\ \E t \in StartTokens :
        \E order \in Perms(NamesToRender(knownNames, renderedNames, t)) :
            LET r == StartElement(State, t, order)
            IN /\ knownNames' = r.knownNames
               /\ renderedNames' = r.renderedNames
               /\ buf' = r.buf
               /\ openElems' = Append(openElems, t.Name)
               /\ wellFormed' = (wellFormed /\ NsWellFormed(r.knownNames, t))
               /\ last' = [res |-> "token", tok |-> t, err |-> "nil", written |-> r.written, pre |-> State]
    /\ requested' = requested + 1
    /\ elems' = elems + 1
    /\ UNCHANGED <<pc, ret, vocab, pkg, peer>>

\* case xml.EndElement, for the end tag of the innermost open element.
OnEndElement ==
    /\ pc = "loop"
    /\ requested < MaxTokens
    /\ openElems # <<>>
    /\ StackLen(knownNames) > 0 /\ StackLen(renderedNames) > 0
    /\ LET t == EndElementTok(openElems[Len(openElems)])
           r == EndElement(State, t)
       IN /\ knownNames' = r.knownNames
          /\ renderedNames' = r.renderedNames
          /\ buf' = r.buf
          /\ last' = [res |-> "token", tok |-> t, err |-> "nil", written |-> <<>>, pre |-> State]
          /\ IF EndReturns(r.knownNames)
             THEN pc' = "done" /\ ret' = [out |-> r.buf, outNil |-> FALSE, err |-> "nil"]
             ELSE UNCHANGED <<pc, ret>>
    /\ openElems' = SubSeq(openElems, 1, Len(openElems) - 1)
    /\ requested' = requested + 1
    /\ UNCHANGED <<wellFormed, elems, vocab, pkg, peer>>

\* case xml.EndElement when a stack is empty: Pop slices [:len-1] of an
\* empty slice, which panics.
OnEndElementPanic ==
    /\ pc = "loop"
    /\ requested < MaxTokens
    /\ StackLen(knownNames) = 0 \/ StackLen(renderedNames) = 0
    /\ \E n \in ElemNames :
        /\ buf' = buf \o <<60, 47>> \o QName(n) \o <<62>>
        /\ last' = [res |-> "token", tok |-> EndElementTok(n), err |-> "nil", written |-> <<>>, pre |-> State]
    /\ pc' = "panic"
    /\ requested' = requested + 1
    /\ UNCHANGED <<knownNames, renderedNames, ret, openElems, wellFormed, elems, vocab, pkg, peer>>

\* case xml.CharData.
OnCharData ==
    /\ pc = "loop"
    /\ requested < MaxTokens
    /\ \E t \in CharDataTokens :
        /\ buf' = CharData(State, t).buf
        /\ last' = [res |-> "token", tok |-> t, err |-> "nil", written |-> <<>>, pre |-> State]
    /\ requested' = requested + 1
    /\ UNCHANGED <<knownNames, renderedNames, pc, ret, openElems, wellFormed, elems, vocab, pkg, peer>>

\* case xml.ProcInst.
OnProcInst ==
    /\ pc = "loop"
    /\ requested < MaxTokens
    /\ \E t \in ProcInstTokens :
        /\ buf' = ProcInst(State, t).buf
        /\ last' = [res |-> "token", tok |-> t, err |-> "nil", written |-> <<>>, pre |-> State]
    /\ requested' = requested + 1
    /\ UNCHANGED <<knownNames, renderedNames, pc, ret, openElems, wellFormed, elems, vocab, pkg, peer>>

\* Mutant of OnOtherToken: a comment or directive is written as an empty
\* comment.
OnOtherTokenMutWrites ==
    /\ pc = "loop"
    /\ requested < MaxTokens
    /\ \E t \in OtherTokens :
        last' = [res |-> "token", tok |-> t, err |-> "nil", written |-> <<>>, pre |-> State]
    /\ buf' = buf \o <<60, 33, 45, 45, 45, 45, 62>>
    /\ requested' = requested + 1
    /\ UNCHANGED <<knownNames, renderedNames, pc, ret, openElems, wellFormed, elems, vocab, pkg, peer>>

\* xml.Comment, xml.Directive: no case of the switch; the loop goes on.
OnOtherToken ==
    /\ pc = "loop"
    /\ requested < MaxTokens
    /\ \E t \in OtherTokens :
        last' = [res |-> "token", tok |-> t, err |-> "nil", written |-> <<>>, pre |-> State]
    /\ requested' = requested + 1
    /\ UNCHANGED <<knownNames, renderedNames, buf, pc, ret, openElems, wellFormed, elems, vocab, pkg, peer>>

Next ==
    \/ RawTokenError
    \/ OnStartElement
    \/ OnEndElement
    \/ OnEndElementPanic
    \/ OnCharData
    \/ OnProcInst
    \/ OnOtherToken

Spec == Init /\ [][Next]_vars

----------------------------------------------------------------------------
(* The whole call as a function of the token sequence, and the tokenizer   *)
(* that reads canonical output back (encoding/xml's Decoder.RawToken on    *)
(* the output grammar: open tags, close tags, text, processing             *)
(* instructions, the predefined entities and the character references the  *)
(* escaper writes).                                                        *)

EmptyState == [knownNames |-> <<>>, renderedNames |-> <<>>, buf |-> <<>>]

Core(r) == [knownNames |-> r.knownNames, renderedNames |-> r.renderedNames, buf |-> r.buf]

RECURSIVE Run(_, _)
Run(st, toks) ==
    IF toks = <<>> THEN HandleError("io.EOF")
    ELSE LET t == Head(toks)
         IN CASE t.kind = "StartElement" ->
                    LET order == CHOOSE o \in Perms(NamesToRender(st.knownNames,
                                                       st.renderedNames, t)) : TRUE
                    IN Run(Core(StartElement(st, t, order)), Tail(toks))
              [] t.kind = "EndElement" ->
                    IF StackLen(st.knownNames) = 0 \/ StackLen(st.renderedNames) = 0
                    THEN [out |-> <<>>, outNil |-> TRUE, err |-> "panic"]
                    ELSE LET r == EndElement(st, t)
                         IN IF EndReturns(r.knownNames)
                            THEN [out |-> r.buf, outNil |-> FALSE, err |-> "nil"]
                            ELSE Run(r, Tail(toks))
              [] t.kind = "CharData" -> Run(CharData(st, t), Tail(toks))
              [] t.kind = "ProcInst" -> Run(ProcInst(st, t), Tail(toks))
              [] OTHER -> Run(st, Tail(toks))

\* Canonicalize(r) for a source that delivers toks and then io.EOF.
Canonicalize(toks) == Run(EmptyState, toks)

----------------------------------------------------------------------------
(* Two calls of Canonicalize at the same time.  Each call has its own      *)
(* knownNames, renderedNames and buf (c14n.go 37-39 declares them inside   *)
(* the function); the escape tables are the package's only variables.      *)
(* The second call reads a source of its own, token by token, and the      *)
(* scheduler interleaves its loop iterations with the first call's.        *)

\* The document the second call canonicalizes, and then io.EOF.
PeerTokens ==
    << StartElementTok(Name(EmptyStr, strE),
                       <<Attr(EmptyStr, strX, strSpecial), Attr(EmptyStr, strXmlns, strU)>>),
       CharDataTok(strSpecial),
       EndElementTok(Name(EmptyStr, strE)) >>

\* The second call entering its loop: its stacks and buffer are fresh.
PeerStart ==
    [knownNames |-> <<>>, renderedNames |-> <<>>, buf |-> <<>>, pc |-> "loop",
     ret |-> NoRet, toks |-> PeerTokens]

\* One loop iteration of a call in state st (its stacks and buffer) whose
\* source holds toks: the state the call is in afterwards.
Iterate(st, toks) ==
    IF toks = <<>>
    THEN [knownNames |-> st.knownNames, renderedNames |-> st.renderedNames, buf |-> st.buf,
          pc |-> "done", ret |-> HandleError("io.EOF"), toks |-> <<>>]
    ELSE LET t == Head(toks)
             empty == StackLen(st.knownNames) = 0 \/ StackLen(st.renderedNames) = 0
             r == CASE t.kind = "StartElement" ->
                          Core(StartElement(st, t,
                               CHOOSE o \in Perms(NamesToRender(st.knownNames,
                                                      st.renderedNames, t)) : TRUE))
                    [] t.kind = "EndElement" ->
                          IF empty
                          THEN [st EXCEPT !.buf = st.buf \o <<60, 47>> \o QName(t.Name) \o <<62>>]
                          ELSE EndElement(st, t)
                    [] t.kind = "CharData" -> CharData(st, t)
                    [] t.kind = "ProcInst" -> ProcInst(st, t)
                    [] OTHER -> st
             returns == t.kind = "EndElement" /\ ~empty /\ EndReturns(r.knownNames)
         IN [knownNames |-> r.knownNames, renderedNames |-> r.renderedNames, buf |-> r.buf,
             pc |-> IF t.kind = "EndElement" /\ empty THEN "panic"
                    ELSE IF returns THEN "done" ELSE "loop",
             ret |-> IF returns THEN [out |-> r.buf, outNil |-> FALSE, err |-> "nil"] ELSE NoRet,
             toks |-> Tail(toks)]

\* Mutant of PeerStep: the output buffer is a package-level variable, so
\* the second call appends to the buffer the first call is filling.
PeerStepMutSharedBuf ==
    /\ peer.pc = "loop"
    /\ LET r == Iterate([knownNames |-> peer.knownNames,
                         renderedNames |-> peer.renderedNames, buf |-> buf], peer.toks)
       IN /\ peer' = [r EXCEPT !.buf = peer.buf]
          /\ buf' = r.buf
    /\ UNCHANGED <<knownNames, renderedNames, pc, ret, requested, openElems, last,
                   wellFormed, elems, vocab, pkg>>

\* One loop iteration of the second call.
PeerStep ==
    /\ peer.pc = "loop"
    /\ peer' = Iterate([knownNames |-> peer.knownNames,
                        renderedNames |-> peer.renderedNames, buf |-> peer.buf], peer.toks)
    /\ UNCHANGED <<knownNames, renderedNames, buf, pc, ret, requested, openElems, last,
                   wellFormed, elems, vocab, pkg>>

\* The documents of the first call while a second one runs.
ConcVocabs == {1}

ConcInit ==
    /\ knownNames = <<>>
    /\ renderedNames = <<>>
    /\ buf = <<>>
    /\ pc = "loop"
    /\ ret = NoRet
    /\ requested = 0
    /\ openElems = <<>>
    /\ wellFormed = TRUE
    /\ elems = 0
    /\ vocab \in ConcVocabs
    /\ last = [res |-> "none", tok |-> NoTok, err |-> "nil", written |-> <<>>,
               pre |-> [knownNames |-> <<>>, renderedNames |-> <<>>, buf |-> <<>>]]
    /\ pkg = Tables
    /\ peer = PeerStart

ConcNext ==
    \/ Next
    \/ PeerStep

ConcSpec == ConcInit /\ [][ConcNext]_vars

----------------------------------------------------------------------------
(* The tokenizer.                                                          *)

\* The first index >= i of s holding a byte of stops, Len(s) + 1 if none.
RECURSIVE IndexOf(_, _, _)
IndexOf(s, i, stops) ==
    IF i > Len(s) THEN Len(s) + 1
    ELSE IF s[i] \in stops THEN i
    ELSE IndexOf(s, i + 1, stops)

\* A QName split at its first colon.
SplitName(n) ==
    LET c == IndexOf(n, 1, {58})
    IN IF c > Len(n) THEN Name(EmptyStr, n)
       ELSE Name(SubSeq(n, 1, c - 1), SubSeq(n, c + 1, Len(n)))

\* What an entity or character reference (the bytes between & and ;) stands for.
Entity(e) ==
    CASE e = <<97, 109, 112>> -> <<38>>
      [] e = <<108, 116>> -> <<60>>
      [] e = <<103, 116>> -> <<62>>
      [] e = <<113, 117, 111, 116>> -> <<34>>
      [] e = <<97, 112, 111, 115>> -> <<39>>
      [] e = <<35, 120, 68>> -> <<13>>
      [] e = <<35, 120, 57>> -> <<9>>
      [] e = <<35, 120, 65>> -> <<10>>
      [] OTHER -> <<38>> \o e \o <<59>>

RECURSIVE Unescape(_)
Unescape(s) ==
    IF s = <<>> THEN <<>>
    ELSE IF Head(s) = 38 /\ IndexOf(s, 2, {59}) <= Len(s)
    THEN LET j == IndexOf(s, 2, {59})
         IN Entity(SubSeq(s, 2, j - 1)) \o Unescape(SubSeq(s, j + 1, Len(s)))
    ELSE <<Head(s)>> \o Unescape(Tail(s))

\* The attributes of an open tag from index k (a space or the closing >):
\* the attribute list and the index after the >.
RECURSIVE ParseAttrs(_, _, _)
ParseAttrs(s, k, acc) ==
    IF k > Len(s) \/ s[k] # 32 THEN [attrs |-> acc, next |-> k + 1]
    ELSE LET eq == IndexOf(s, k + 1, {61})
             q == IndexOf(s, eq + 2, {34})
             n == SplitName(SubSeq(s, k + 1, eq - 1))
             a == [Name |-> n, Value |-> Unescape(SubSeq(s, eq + 2, q - 1))]
         IN ParseAttrs(s, q + 1, Append(acc, a))

\* The index of the ? of the first "?>" at or after i.
RECURSIVE FindPIEnd(_, _)
FindPIEnd(s, i) ==
    IF i >= Len(s) THEN Len(s) + 1
    ELSE IF s[i] = 63 /\ s[i + 1] = 62 THEN i
    ELSE FindPIEnd(s, i + 1)

RECURSIVE TokensFrom(_, _)
TokensFrom(s, i) ==
    IF i > Len(s) THEN <<>>
    ELSE IF s[i] = 60 /\ i < Len(s) /\ s[i + 1] = 47
    THEN LET j == IndexOf(s, i, {62})
         IN <<EndElementTok(SplitName(SubSeq(s, i + 2, j - 1)))>> \o TokensFrom(s, j + 1)
    ELSE IF s[i] = 60 /\ i < Len(s) /\ s[i + 1] = 63
    THEN LET k == IndexOf(s, i + 2, {32, 63})
             e == FindPIEnd(s, k)
             inst == IF s[k] = 32 THEN SubSeq(s, k + 1, e - 1) ELSE <<>>
         IN <<ProcInstTok(SubSeq(s, i + 2, k - 1), inst)>> \o TokensFrom(s, e + 2)
    ELSE IF s[i] = 60
    THEN LET k == IndexOf(s, i + 1, {32, 62})
             r == ParseAttrs(s, k, <<>>)
         IN <<StartElementTok(SplitName(SubSeq(s, i + 1, k - 1)), r.attrs)>>
            \o TokensFrom(s, r.next)
    ELSE LET j == IndexOf(s, i, {60})
         IN <<CharDataTok(Unescape(SubSeq(s, i, j - 1)))>> \o TokensFrom(s, j)

Tokenize(s) == TokensFrom(s, 1)

----------------------------------------------------------------------------
(* Properties.                                                             *)

IsStart == last.res = "token" /\ last.tok.kind = "StartElement"
Returned == pc = "done"
Succeeded == pc = "done" /\ ret.err = "nil"

\* The namespace pseudo-attribute for prefix P with value U is among the
\* attributes written in the last open tag.
Written(P, U) == \E i \in 1..Len(last.written) : last.written[i] = NsAttr(P, U)

C2_NoStartElementReturnsEOF ==
    (pc = "done" /\ last.res = "error" /\ last.err = "io.EOF" /\ elems = 0) =>
        ret.err = "io.EOF"

\* C3: an error of the source other than io.EOF is returned as the same
\* error value, and once the source reported an error no further token is
\* requested.
C3_SourceErrorVerbatim ==
    [][ /\ (last'.res = "error" /\ last'.err # "io.EOF") =>
               (pc' = "done" /\ ret'.err = last'.err)
        /\ last.res = "error" => requested' = requested ]_vars

\* A source error arrives after output was accumulated and is returned.
C3_Witness ==
    /\ last.res = "error" /\ last.err = "xml.SyntaxError"
    /\ buf # <<>>
    /\ pc = "done"

\* C4: a non-nil error is always returned with a nil output, however much
\* output was accumulated; a non-nil output only comes with a nil error.
C4_NoPartialOutputOnError ==
    pc = "done" =>
        /\ ret.err # "nil" => ret.outNil
        /\ ~ret.outNil => ret.err = "nil"

\* An error return that discards accumulated output.
C4_Witness == pc = "done" /\ ret.err # "nil" /\ buf # <<>> /\ elems > 0

\* C5: on a well-nested stream Canonicalize has returned successfully exactly
\* when the last token processed is the EndElement balancing the first
\* StartElement (no element left open, the namespace stack empty), and once it
\* has returned it requests no further token.
C5_SuccessState ==
    Succeeded <=>
        /\ last.res = "token" /\ last.tok.kind = "EndElement"
        /\ elems > 0 /\ openElems = <<>>
        /\ StackLen(knownNames) = 0
        /\ pc # "panic"

C5_ReturnsAtBalancingEnd ==
    /\ []C5_SuccessState
    /\ [][pc = "done" => requested' = requested]_vars

\* A nested document is closed and returned while the source could deliver more.
C5_Witness == Succeeded /\ elems >= 2 /\ requested < MaxTokens

\* C6: idempotence: when Canonicalize succeeds with output O, tokenizing O
\* and canonicalizing again succeeds with exactly O.
C6_Idempotent ==
    Succeeded =>
        Canonicalize(Tokenize(ret.out)) = [out |-> ret.out, outNil |-> FALSE, err |-> "nil"]

Range(f) == {f[i] : i \in DOMAIN f}

\* C7: listing the attributes of a StartElement (distinct names) in another
\* order yields the same bytes.  Stated for namespace-well-formed streams
\* only, which narrows the claim: from the same state before the token, every
\* reordering of its attribute list writes the output that was written.
C7_AttrOrderIrrelevant ==
    (IsStart /\ wellFormed) =>
        \A as \in Perms(Range(last.tok.Attr)) :
            LET t2 == [last.tok EXCEPT !.Attr = as]
            IN \A order \in Perms(NamesToRender(last.pre.knownNames,
                                                last.pre.renderedNames, t2)) :
                   StartElement(last.pre, t2, order).buf = buf

\* C8: no namespace pseudo-attribute written in an open tag repeats the
\* nearest binding of its prefix written on a still-open ancestor (the
\* rendered stack before this element's frame).
C8_NoRedundantNsDecl ==
    IsStart =>
        \A i \in 1..Len(last.written) :
            getNamespace(last.written[i]).ok =>
                LET P == getNamespace(last.written[i]).name
                IN ~(/\ GetOk(last.pre.renderedNames, P)
                     /\ Get(last.pre.renderedNames, P) = last.written[i].Value)

\* C9: default-namespace cancellation: an element that visibly uses the
\* empty prefix, for which the nearest xmlns declaration of the input is the
\* empty URI, under a still-open ancestor that had a non-empty default
\* namespace written, gets xmlns="" written.  Stated for namespace-well-formed
\* streams and for the case where that non-empty default is still the one in
\* effect in the output (the nearest rendered binding), which narrows the
\* claim.
C9_DefaultNsCancelled ==
    (/\ IsStart /\ wellFormed
     /\ EmptyStr \in VisiblyUsedNames(last.tok)
     /\ GetOk(knownNames, EmptyStr) /\ Get(knownNames, EmptyStr) = EmptyStr
     /\ GetOk(last.pre.renderedNames, EmptyStr)
     /\ Get(last.pre.renderedNames, EmptyStr) # EmptyStr
     /\ GetOk(last.pre.knownNames, EmptyStr))
    => Written(EmptyStr, EmptyStr)

\* C10: the general rendering rule: for every prefix P resolvable after the
\* push with URI U, except P and U both empty, the pseudo-attribute for P is
\* written iff P is visibly used by the element and no still-open ancestor
\* frame of the rendered stack holds P or the nearest rendered value differs
\* from U.
C10_GeneralRenderRule ==
    IsStart =>
        LET all == GetAll(knownNames)
        IN \A P \in DOMAIN all :
               ~(P = EmptyStr /\ all[P] = EmptyStr) =>
                   (Written(P, all[P]) <=>
                       /\ P \in VisiblyUsedNames(last.tok)
                       /\ \/ ~GetOk(last.pre.renderedNames, P)
                          \/ Get(last.pre.renderedNames, P) # all[P])

\* A prefix already rendered by an ancestor is written again with another
\* URI, and a visibly used prefix with an unchanged binding is not.
C10_Witness ==
    /\ IsStart
    /\ \E P \in DOMAIN GetAll(knownNames) :
          /\ P # EmptyStr
          /\ GetOk(last.pre.renderedNames, P)
          /\ Written(P, GetAll(knownNames)[P])

C12_NsNodesFirst ==
    IsStart =>
        LET w == last.written
        IN /\ \A i \in 1..Len(w) : IsDefaultNs(w[i]) => i = 1
           /\ \A i, j \in 1..Len(w) :
                 (i < j /\ IsNsNode(w[j])) => (IsDefaultNs(w[i]) \/ IsNsNode(w[i]))
           /\ \A i, j \in 1..Len(w) :
                 (i < j /\ IsNsNode(w[i]) /\ IsNsNode(w[j]))
                     => StrLess(w[i].Name.Local, w[j].Name.Local)

\* A tag with two prefixed namespace nodes and ordinary attributes, whose
\* input lists an ordinary attribute first.
C12_Witness ==
    /\ IsStart
    /\ \E i, j \in 1..Len(last.written) :
          i < j /\ IsNsNode(last.written[i]) /\ IsNsNode(last.written[j])
    /\ \E i \in 1..Len(last.written) : ~getNamespace(last.written[i]).ok
    /\ Len(last.tok.Attr) > 0 /\ ~getNamespace(last.tok.Attr[1]).ok

\* The sort key of an ordinary attribute on a scope stack: the URI its prefix
\* resolves to (empty when unresolved), then its local name.
KeyLess(known, a, b) ==
    IF Get(known, a.Name.Space) # Get(known, b.Name.Space)
    THEN StrLess(Get(known, a.Name.Space), Get(known, b.Name.Space))
    ELSE StrLess(a.Name.Local, b.Name.Local)

C14_LessStrictTotalOrder ==
    IsStart =>
        LET s == [Stack |-> knownNames, Attrs |-> last.written]
            n == Len(last.written)
            lt_(i, j) == Less(s, i, j).less
        IN /\ \A i \in 1..n : ~lt_(i, i)
           /\ \A i, j \in 1..n : ~(lt_(i, j) /\ lt_(j, i))
           /\ \A i, j, k \in 1..n : (lt_(i, j) /\ lt_(j, k)) => lt_(i, k)
           /\ \A i, j \in 1..n :
                 s.Attrs[i].Name # s.Attrs[j].Name => (lt_(i, j) \/ lt_(j, i))

\* C15: sorting the sorted attributes of an element again leaves their order
\* unchanged, and sorting any permutation of the same attribute set against
\* the same scope stack yields the same sequence.  Stated of the attribute
\* set of every open tag of a namespace-well-formed stream.
C15_SortDeterministic ==
    (IsStart /\ wellFormed) =>
        /\ Sort([Stack |-> knownNames, Attrs |-> last.written]).Attrs = last.written
        /\ \A p \in Perms(Range(last.written)) :
              Sort([Stack |-> knownNames, Attrs |-> p]).Attrs = last.written

\* The image of one character of text: & < > and carriage return become
\* references, every other character is itself.
TextChar(c) ==
    CASE c = 38 -> <<38, 97, 109, 112, 59>>
      [] c = 60 -> <<38, 108, 116, 59>>
      [] c = 62 -> <<38, 103, 116, 59>>
      [] c = 13 -> <<38, 35, 120, 68, 59>>
      [] OTHER -> <<c>>

\* C16: text escaping: the bytes appended for a CharData token inside the
\* root element are the concatenation of the images of its characters, each
\* character mapped once (no reference is escaped again).
C16_TextEscaping ==
    (last.res = "token" /\ last.tok.kind = "CharData" /\ ~IsNil(last.pre.knownNames)) =>
        buf = last.pre.buf \o Concat([i \in 1..Len(last.tok.Data) |-> TextChar(last.tok.Data[i])])

\* Text holding every special character, the newline, the tab, the quote
\* and the apostrophe is written inside an element.
C16_Witness ==
    /\ last.res = "token" /\ last.tok.kind = "CharData"
    /\ ~IsNil(last.pre.knownNames)
    /\ last.tok.Data = strSpecial
    /\ buf # last.pre.buf \o last.tok.Data

\* The image of one character of an attribute value: & < the double quote,
\* tab, newline and carriage return become references, every other character
\* (the closing angle bracket and the apostrophe among them) is itself.
AttrChar(c) ==
    CASE c = 38 -> <<38, 97, 109, 112, 59>>
      [] c = 60 -> <<38, 108, 116, 59>>
      [] c = 34 -> <<38, 113, 117, 111, 116, 59>>
      [] c = 9 -> <<38, 35, 120, 57, 59>>
      [] c = 10 -> <<38, 35, 120, 65, 59>>
      [] c = 13 -> <<38, 35, 120, 68, 59>>
      [] OTHER -> <<c>>

\* C17: attribute-value escaping: in the open tag appended for a
\* StartElement, the bytes between the quotes of every attribute written
\* (ordinary or namespace pseudo-attribute) are the concatenation of the
\* images of the characters of its value, each character mapped once.
C17_AttrEscaping ==
    IsStart =>
        LET w == last.written
            image(v) == Concat([i \in 1..Len(v) |-> AttrChar(v[i])])
            attr(a) == <<32>> \o QName(a.Name) \o <<61, 34>> \o image(a.Value) \o <<34>>
        IN buf = last.pre.buf \o <<60>> \o QName(last.tok.Name)
                    \o Concat([i \in 1..Len(w) |-> attr(w[i])]) \o <<62>>

\* An open tag is written with a namespace pseudo-attribute and an ordinary
\* attribute whose values hold every special character.
C17_Witness ==
    /\ IsStart
    /\ \E i, j \in 1..Len(last.written) :
          /\ getNamespace(last.written[i]).ok /\ last.written[i].Value = strSpecial
          /\ ~getNamespace(last.written[j]).ok /\ last.written[j].Value = strSpecial

\* C18: CharData and ProcInst tokens that arrive before the first
\* StartElement leave the buffer and both stacks unchanged (until the first
\* StartElement all three are empty, unless an EndElement arrived first and
\* the call panicked), so the output begins with the open tag
\* of the first StartElement: that tag is the whole buffer when it is
\* written, no step removes or changes bytes already in the buffer, and a
\* successful output begins with the open tag of the element whose end tag
\* ended the run.  CharData after the first StartElement is escaped and
\* appended.
C18_State ==
    /\ (elems = 0 /\ pc # "panic") =>
           (buf = <<>> /\ knownNames = <<>> /\ renderedNames = <<>>)
    /\ (IsStart /\ elems = 1) =>
           buf = <<60>> \o QName(last.tok.Name)
                   \o Concat([i \in 1..Len(last.written) |-> WriteAttr(last.written[i])])
                   \o <<62>>
    /\ Succeeded =>
           LET open == <<60>> \o QName(last.tok.Name)
           IN Len(ret.out) > Len(open) /\ SubSeq(ret.out, 1, Len(open)) = open
    /\ (last.res = "token" /\ last.tok.kind = "CharData" /\ elems > 0) =>
           buf = last.pre.buf \o EscapeText(last.tok.Data)

C18_LeadingContentSkipped ==
    /\ []C18_State
    /\ [][ /\ (last'.res = "token" /\ last'.tok.kind \in {"CharData", "ProcInst"} /\ elems = 0)
                  => UNCHANGED <<buf, knownNames, renderedNames>>
           /\ Len(buf') >= Len(buf) /\ SubSeq(buf', 1, Len(buf)) = buf ]_vars

\* Text arrives after another token and before any StartElement.
C18_Witness ==
    /\ last.res = "token" /\ last.tok.kind = "CharData"
    /\ elems = 0 /\ requested >= 2 /\ last.tok.Data # <<>>

\* Whether the byte string sub occurs in s.
HasSub(s, sub) ==
    \E i \in 1..(Len(s) - Len(sub) + 1) : SubSeq(s, i, i + Len(sub) - 1) = sub

\* C19: a ProcInst with target "xml" adds nothing to the output wherever it
\* arrives; any other ProcInst after the first StartElement is written as
\* "<?" target, a space and the instruction bytes when these are not empty,
\* and "?>"; the output never holds an XML declaration ("<?xml" followed by
\* a space or by "?>").
C19_ProcInst ==
    /\ (last.res = "token" /\ last.tok.kind = "ProcInst" /\ last.tok.Target = strXml)
           => buf = last.pre.buf
    /\ (last.res = "token" /\ last.tok.kind = "ProcInst" /\ last.tok.Target # strXml
           /\ elems > 0)
           => buf = last.pre.buf \o <<60, 63>> \o last.tok.Target
                      \o (IF last.tok.Inst = <<>> THEN <<>> ELSE <<32>> \o last.tok.Inst)
                      \o <<63, 62>>
    /\ ~HasSub(buf, <<60, 63>> \o strXml \o <<32>>)
    /\ ~HasSub(buf, <<60, 63>> \o strXml \o <<63, 62>>)
    /\ Succeeded => ret.out = buf

\* An XML declaration arrives inside an element, after output was written.
C19_Witness ==
    /\ last.res = "token" /\ last.tok.kind = "ProcInst" /\ last.tok.Target = strXml
    /\ last.tok.Inst # <<>>
    /\ elems > 0 /\ buf # <<>>

\* C20: a Comment or Directive token, wherever it arrives, leaves the output
\* buffer, the namespace stack and the rendered stack as they were, and the
\* loop goes on to the next token: nothing is returned and one token was
\* requested for it.
C20_CommentsDirectivesIgnored ==
    (last.res = "token" /\ last.tok.kind \in {"Comment", "Directive"}) =>
        /\ buf = last.pre.buf
        /\ knownNames = last.pre.knownNames
        /\ renderedNames = last.pre.renderedNames
        /\ pc = "loop" /\ ret = NoRet

\* A comment or directive arrives inside an open element, after another one
\* was opened and closed in it.
C20_Witness ==
    /\ last.res = "token" /\ last.tok.kind \in {"Comment", "Directive"}
    /\ openElems # <<>> /\ elems >= 2 /\ Len(openElems) = 1
    /\ knownNames # <<>> /\ buf # <<>>

\* C21: stack lifecycle: both stacks are empty when Canonicalize starts;
\* a StartElement grows each by exactly one frame, an EndElement (one that
\* finds a frame to pop) shrinks each by exactly one, nothing else changes
\* their depth; so after every token both have the depth of the open
\* elements, and both are empty on a successful return.
C21_State ==
    /\ StackLen(knownNames) = StackLen(renderedNames)
    /\ StackLen(knownNames) = Len(openElems)
    /\ requested = 0 => (StackLen(knownNames) = 0 /\ StackLen(renderedNames) = 0)
    /\ Succeeded => (StackLen(knownNames) = 0 /\ StackLen(renderedNames) = 0)

C21_StackLifecycle ==
    /\ []C21_State
    /\ [][ LET d == IF last'.res = "token" /\ last'.tok.kind = "StartElement" THEN 1
                     ELSE IF last'.res = "token" /\ last'.tok.kind = "EndElement"
                             /\ pc' # "panic" THEN -1
                     ELSE 0
            IN /\ StackLen(knownNames') = StackLen(knownNames) + d
               /\ StackLen(renderedNames') = StackLen(renderedNames) + d ]_vars

\* An inner element is closed and its parent stays open: both stacks go
\* from depth two to depth one.
C21_Witness ==
    /\ last.res = "token" /\ last.tok.kind = "EndElement"
    /\ StackLen(last.pre.knownNames) = 2 /\ StackLen(last.pre.renderedNames) = 2
    /\ StackLen(knownNames) = 1 /\ StackLen(renderedNames) = 1

\* C22: two calls of Canonicalize on separate sources share no mutable
\* state.  The escape tables, the package's only variables, keep the values
\* they were declared with; an iteration of one call changes nothing of the
\* other call's stacks, buffer, position or result; and under every
\* interleaving the second call returns the bytes it returns when it runs
\* alone.
C22_Concurrency ==
    /\ [](pkg = Tables)
    /\ [](peer.pc = "done" =>
            peer.ret = [out |-> <<60, 101, 32, 120, 109, 108, 110, 115, 61, 34, 117, 34,
                                  32, 120, 61, 34>>
                                \o escAmp \o escLt \o <<62>> \o escCr \o escNl \o escTab
                                \o escQuot \o <<39, 34, 62>>
                                \o escAmp \o escLt \o escGt \o escCr \o <<10, 9, 34, 39>>
                                \o <<60, 47, 101, 62>>,
                        outNil |-> FALSE, err |-> "nil"])
    /\ [][ /\ peer' # peer =>
                UNCHANGED <<knownNames, renderedNames, buf, pc, ret, requested, openElems,
                            last, wellFormed, elems, vocab>>
           /\ <<knownNames, renderedNames, buf, pc, ret, requested>>'
                  # <<knownNames, renderedNames, buf, pc, ret, requested>> => peer' = peer ]_vars

\* Both calls have returned successfully, the first one having written an
\* attribute value and text of its own through the same tables.
C22_Witness ==
    /\ peer.pc = "done" /\ peer.ret.err = "nil"
    /\ Succeeded
    /\ HasSub(ret.out, <<34, 49, 34, 62, 116>>)

\* C23: Stack.Used returns only the entries of the innermost frame whose
\* used flag is set, with their URIs: nothing of an outer frame is in the
\* result, even when marked used, and on an empty stack the result is the
\* empty mapping.  Stated of both scope stacks of every reachable state.
C23_UsedInnermost ==
    \A s \in {knownNames, renderedNames} :
        LET u == Used(s)
        IN IF StackLen(s) = 0 THEN DOMAIN u = {}
           ELSE /\ DOMAIN u = {k \in DOMAIN s[Len(s)] : s[Len(s)][k].used}
                /\ \A k \in DOMAIN u : u[k] = s[Len(s)][k].value

\* C24: Stack.Get(prefix) returns the URI of the innermost frame that holds
\* the prefix, an inner declaration shadowing an outer one; when no frame
\* holds the prefix, or the stack is empty, it returns the empty string and
\* changes no frame.  Stated of both scope stacks of every reachable state,
\* for every prefix they hold and one they never hold.
C24_GetInnermost ==
    \A s \in {knownNames, renderedNames} :
        \A n \in UNION {DOMAIN s[i] : i \in 1..Len(s)} \cup {EmptyStr, <<122>>} :
            LET holds == {i \in 1..Len(s) : n \in DOMAIN s[i]}
            IN IF holds = {}
               THEN Get(s, n) = EmptyStr /\ GetMark(s, n) = s
               ELSE \E i \in holds :
                        /\ \A j \in holds : j <= i
                        /\ Get(s, n) = s[i][n].value

\* A prefix is declared with one URI by an outer open element and with
\* another by an inner one, which the canonicalizer resolved (the inner
\* entry is marked used): Get returns the inner URI.
C24_Witness ==
    \E i, j \in 1..Len(knownNames) : \E n \in DOMAIN knownNames[i] :
        /\ i < j /\ n \in DOMAIN knownNames[j]
        /\ \A k \in (j + 1)..Len(knownNames) : n \notin DOMAIN knownNames[k]
        /\ knownNames[i][n].value # knownNames[j][n].value
        /\ knownNames[j][n].used
        /\ Get(knownNames, n) = knownNames[j][n].value

\* C25: Stack.Get(prefix) sets the used flag of exactly one entry, the one
\* for that prefix in the innermost frame holding it.  The flags of shadowed
\* entries for the prefix in outer frames, the flags of every other prefix,
\* every stored URI, every frame's key set and the depth stay as they were.
\* Stated of both scope stacks of every reachable state, for every prefix
\* they hold.
C25_GetMarksOne ==
    \A s \in {knownNames, renderedNames} :
        \A n \in UNION {DOMAIN s[i] : i \in 1..Len(s)} :
            LET t == GetMark(s, n)
                holds == {i \in 1..Len(s) : n \in DOMAIN s[i]}
                m == CHOOSE i \in holds : \A j \in holds : j <= i
            IN /\ StackLen(t) = StackLen(s)
               /\ \A i \in 1..Len(s) :
                    /\ DOMAIN t[i] = DOMAIN s[i]
                    /\ \A k \in DOMAIN s[i] :
                        /\ t[i][k].value = s[i][k].value
                        /\ t[i][k].used = (IF i = m /\ k = n THEN TRUE ELSE s[i][k].used)

\* A prefix is held by two frames, neither entry marked yet, beside another
\* prefix in the inner frame: Get marks the inner entry and only it.
C25_Witness ==
    \E i, j \in 1..Len(knownNames) : \E n \in DOMAIN knownNames[i] :
        /\ i < j /\ j = Len(knownNames) /\ n \in DOMAIN knownNames[j]
        /\ ~knownNames[i][n].used /\ ~knownNames[j][n].used
        /\ \E k \in DOMAIN knownNames[j] : k # n /\ ~knownNames[j][k].used
        /\ GetMark(knownNames, n)[j][n].used
        /\ ~GetMark(knownNames, n)[i][n].used

\* C26, first half: Push adds exactly one new innermost frame holding
\* exactly the given prefix-to-URI entries, each unused, and changes no
\* existing frame.  Stated of the Push of the last StartElement (c14n.go
\* line 73): the stack it was called on and the names it was given.
C26_PushFrame ==
    (last.res = "token" /\ last.tok.kind = "StartElement") =>
        LET s == GetMark(last.pre.knownNames, EmptyStr)
            names == DeclaredNames(last.tok.Attr)
            t == Push(s, names)
        IN /\ StackLen(t) = StackLen(s) + 1
           /\ \A i \in 1..Len(s) : t[i] = s[i]
           /\ DOMAIN t[Len(t)] = DOMAIN names
           /\ \A k \in DOMAIN names :
                t[Len(t)][k].value = names[k] /\ ~t[Len(t)][k].used

\* C26: Stack.Push adds exactly one new innermost frame containing exactly
\* the given entries, each with its used flag unset, and changes no
\* existing frame; and a binding of the new frame is in the result of Used
\* only after a Get resolved through it: not right after the Push, not
\* after a Get of another prefix, and always after a Get of its own prefix.
C26_Push ==
    /\ C26_PushFrame
    /\ (last.res = "token" /\ last.tok.kind = "StartElement") =>
        LET names == DeclaredNames(last.tok.Attr)
            t == Push(GetMark(last.pre.knownNames, EmptyStr), names)
            in_(u, k) == k \in DOMAIN u /\ u[k] = names[k]
        IN \A k \in DOMAIN names :
              /\ ~in_(Used(t), k)
              /\ \A n \in DOMAIN names \ {k} : ~in_(Used(GetMark(t, n)), k)
              /\ in_(Used(GetMark(t, k)), k)

\* C27: namespace preservation: for every element written and every prefix
\* it visibly uses, the binding in effect in the output (the nearest value of
\* the prefix on the rendered stack once the element's frame is pushed, empty
\* when none) equals the binding in effect in the input (the nearest
\* declaration on the namespace stack, empty when none).  Stated for
\* namespace-well-formed streams.
C27_NamespacePreserved ==
    (IsStart /\ wellFormed) =>
        \A P \in VisiblyUsedNames(last.tok) :
            Get(renderedNames, P) = Get(knownNames, P)

\* C28, first half: every namespace pseudo-attribute written in an open tag
\* has a prefix the element visibly uses (its own prefix or the prefix of
\* one of its ordinary attributes); so a namespace declared on an element
\* that does not visibly use it is not written there.
C28_WrittenAreUsed ==
    IsStart =>
        \A i \in 1..Len(last.written) :
            getNamespace(last.written[i]).ok =>
                getNamespace(last.written[i]).name \in VisiblyUsedNames(last.tok)

\* C28 as stated: every pseudo-attribute written has a visibly used prefix;
\* a namespace (a non-empty URI) declared on an element that does not visibly
\* use its prefix is not written there, and it is written on the first
\* descendant that visibly uses it: on every child that visibly uses the
\* prefix without declaring it again.  Stated for namespace-well-formed
\* streams.
C28_VisiblyUsedOnly ==
    /\ C28_WrittenAreUsed
    /\ (IsStart /\ wellFormed) =>
        LET names == DeclaredNames(last.tok.Attr)
        IN \A P \in DOMAIN names :
              (P \notin VisiblyUsedNames(last.tok) /\ names[P] # EmptyStr) =>
                  \A t2 \in StartTokens :
                      (P \in VisiblyUsedNames(t2) /\ P \notin DOMAIN DeclaredNames(t2.Attr)) =>
                          \A order \in Perms(NamesToRender(knownNames, renderedNames, t2)) :
                              LET w == StartElement(State, t2, order).written
                              IN \E i \in 1..Len(w) : w[i] = NsAttr(P, names[P])

\* C28 as amended: the same, except that the first descendant that visibly
\* uses the prefix gets the pseudo-attribute exactly when no still-open
\* ancestor's open tag already holds that binding as the nearest one written
\* for the prefix.
C28_VisiblyUsedAmended ==
    /\ C28_WrittenAreUsed
    /\ IsStart =>
        LET names == DeclaredNames(last.tok.Attr)
        IN \A P \in DOMAIN names :
              (P \notin VisiblyUsedNames(last.tok) /\ names[P] # EmptyStr) =>
                  \A t2 \in StartTokens :
                      (P \in VisiblyUsedNames(t2) /\ P \notin DOMAIN DeclaredNames(t2.Attr)) =>
                          \A order \in Perms(NamesToRender(knownNames, renderedNames, t2)) :
                              LET w == StartElement(State, t2, order).written
                              IN (\E i \in 1..Len(w) : w[i] = NsAttr(P, names[P]))
                                 <=> ~(/\ GetOk(renderedNames, P)
                                       /\ Get(renderedNames, P) = names[P])

\* The parent declared a namespace without writing it, no open ancestor had
\* written the prefix, and this element, which visibly uses the prefix
\* without declaring it, has the pseudo-attribute written.
C28_Witness ==
    /\ IsStart /\ Len(knownNames) >= 2
    /\ \E P \in DOMAIN knownNames[Len(knownNames) - 1] :
          /\ P \in VisiblyUsedNames(last.tok)
          /\ P \notin DOMAIN DeclaredNames(last.tok.Attr)
          /\ knownNames[Len(knownNames) - 1][P].value # EmptyStr
          /\ ~GetOk(last.pre.renderedNames, P)
          /\ Written(P, knownNames[Len(knownNames) - 1][P].value)

\* C29: after every StartElement the frame pushed on the rendered stack
\* holds exactly the bindings written as namespace pseudo-attributes in that
\* element's open tag, each once and with the URI the namespace stack
\* resolves for its prefix: nothing is written that is not recorded, nothing
\* is recorded that is not written.
C29_RenderedFrame ==
    IsStart =>
        LET w == last.written
            ns == {i \in 1..Len(w) : getNamespace(w[i]).ok}
            top == renderedNames[Len(renderedNames)]
        IN /\ StackLen(renderedNames) = StackLen(last.pre.renderedNames) + 1
           /\ DOMAIN top = {getNamespace(w[i]).name : i \in ns}
           /\ \A i, j \in ns : getNamespace(w[i]).name = getNamespace(w[j]).name => i = j
           /\ \A i \in ns :
                 /\ top[getNamespace(w[i]).name].value = w[i].Value
                 /\ w[i].Value = Get(knownNames, getNamespace(w[i]).name)
           /\ \A i \in ns : HasSub(buf, WriteAttr(w[i]) )

\* An element declares two namespaces and has one of them written beside an
\* ordinary attribute: the frame records the written one only.
C29_Witness ==
    /\ IsStart
    /\ Cardinality(DOMAIN DeclaredNames(last.tok.Attr)) = 2
    /\ Cardinality(DOMAIN renderedNames[Len(renderedNames)]) = 1
    /\ \E i \in 1..Len(last.written) : getNamespace(last.written[i]).ok

\* C30: once an element's EndElement has been processed, the bindings
\* written on that element no longer count as rendered: its frame is gone
\* from the rendered stack, and a following sibling that visibly uses one of
\* its prefixes with the same URI has the pseudo-attribute written again,
\* unless a still-open ancestor's open tag holds that binding as the nearest
\* one written for the prefix.  Stated of every state that follows an
\* EndElement with the loop still running, for every StartElement the source
\* may deliver next, on namespace-well-formed streams.
C30_ClosedNotRendered ==
    (last.res = "token" /\ last.tok.kind = "EndElement" /\ pc = "loop" /\ wellFormed) =>
        LET closed == last.pre.renderedNames[Len(last.pre.renderedNames)]
        IN /\ renderedNames = Pop(last.pre.renderedNames)
           /\ \A P \in DOMAIN closed : \A t2 \in StartTokens :
                 LET U == closed[P].value
                     known1 == Push(knownNames, DeclaredNames(t2.Attr))
                 IN (/\ NsWellFormed(known1, t2)
                     /\ P \in VisiblyUsedNames(t2)
                     /\ GetOk(known1, P) /\ Get(known1, P) = U) =>
                       \A order \in Perms(NamesToRender(knownNames, renderedNames, t2)) :
                           LET w == StartElement(State, t2, order).written
                           IN ~(GetOk(renderedNames, P) /\ Get(renderedNames, P) = U)
                              => \E i \in 1..Len(w) : w[i] = NsAttr(P, U)

\* C31: for every StartElement, each attribute of the token that declares
\* no namespace is written exactly once in the open tag, with its own
\* qualified name and value; no namespace-declaring attribute of the input
\* is written directly: the xmlns and xmlns:P attributes of the tag are the
\* synthesized ones (one per name recorded on the rendered stack), so a
\* declaration the rendering rules do not select is absent from the tag.
C31_OrdinaryAttrsOnce ==
    IsStart =>
        LET w == last.written
            a == last.tok.Attr
            ord == {i \in 1..Len(a) : ~getNamespace(a[i]).ok}
            decl == {i \in 1..Len(a) : getNamespace(a[i]).ok}
            top == renderedNames[Len(renderedNames)]
            tag == SubSeq(buf, Len(last.pre.buf) + 1, Len(buf))
        IN /\ \A i \in ord :
                 /\ Cardinality({j \in 1..Len(w) : w[j].Name = a[i].Name}) = 1
                 /\ \E j \in 1..Len(w) : w[j] = a[i]
                 /\ HasSub(tag, <<32>> \o QName(a[i].Name) \o <<61, 34>>)
           /\ Len(w) = Cardinality(ord) + Cardinality(DOMAIN top)
           /\ \A j \in 1..Len(w) :
                 getNamespace(w[j]).ok => getNamespace(w[j]).name \in DOMAIN top
           /\ \A i \in decl :
                 getNamespace(a[i]).name \notin DOMAIN top =>
                     /\ \A j \in 1..Len(w) : w[j].Name # a[i].Name
                     /\ ~HasSub(tag, <<32>> \o QName(a[i].Name) \o <<61, 34>>)

\* An element carries an ordinary attribute and a declaration of a prefix it
\* does not use: the ordinary attribute is written, the declaration is not.
C31_Witness ==
    /\ IsStart
    /\ \E i, k \in 1..Len(last.tok.Attr) :
          /\ ~getNamespace(last.tok.Attr[i]).ok
          /\ getNamespace(last.tok.Attr[k]).ok
          /\ getNamespace(last.tok.Attr[k]).name # EmptyStr
          /\ getNamespace(last.tok.Attr[k]).name
                 \notin DOMAIN renderedNames[Len(renderedNames)]
          /\ \E j \in 1..Len(last.written) : last.written[j] = last.tok.Attr[i]
          /\ \A j \in 1..Len(last.written) : last.written[j].Name # last.tok.Attr[k].Name

\* C32: the output is produced in token order in a single pass.  Every
\* token leaves the bytes already written in place and only appends: a
\* StartElement appends one open tag, "<", the qualified name, the attributes
\* written and ">", never ending in "/>"; an EndElement appends one explicit
\* close tag, "</", the qualified name and ">".  The qualified name is the
\* local name alone when the token's prefix is empty and prefix ":" local
\* otherwise.  A successful return hands back the buffer so built.
C32_SinglePass ==
    [][ LET t == last'.tok
            q == IF t.Name.Space = EmptyStr THEN t.Name.Local
                 ELSE t.Name.Space \o <<58>> \o t.Name.Local
        IN /\ Len(buf') >= Len(buf) /\ SubSeq(buf', 1, Len(buf)) = buf
           /\ (last'.res = "token" /\ t.kind = "StartElement") =>
                 /\ buf' = buf \o <<60>> \o q
                           \o Concat([i \in 1..Len(last'.written) |->
                                        WriteAttr(last'.written[i])])
                           \o <<62>>
                 /\ buf'[Len(buf') - 1] # 47
           /\ (last'.res = "token" /\ t.kind = "EndElement") =>
                 buf' = buf \o <<60, 47>> \o q \o <<62>>
           /\ (pc' = "done" /\ ret'.err = "nil") => ret'.out = buf' ]_vars

\* A prefixed element without content is closed: its close tag follows its
\* open tag at once, with the prefix.
C32_Witness ==
    /\ last.res = "token" /\ last.tok.kind = "EndElement"
    /\ last.tok.Name.Space # EmptyStr
    /\ buf = last.pre.buf \o <<60, 47>> \o last.tok.Name.Space \o <<58>>
                          \o last.tok.Name.Local \o <<62>>
    /\ last.pre.buf # <<>> /\ last.pre.buf[Len(last.pre.buf)] = 62
    /\ \E i \in 1..Len(last.pre.buf) :
          /\ SubSeq(last.pre.buf, i, Len(last.pre.buf))
                = <<60>> \o last.tok.Name.Space \o <<58>> \o last.tok.Name.Local \o <<62>>

\* C33: in every open tag written, an ordinary attribute without a prefix
\* stands before every ordinary attribute whose prefix resolves to a
\* non-empty namespace URI, whatever default namespace is in effect.  Stated
\* for namespace-well-formed streams.
C33_UnprefixedFirst ==
    (IsStart /\ wellFormed) =>
        LET w == last.written
        IN \A i, j \in 1..Len(w) :
              (/\ ~getNamespace(w[i]).ok /\ ~getNamespace(w[j]).ok
               /\ w[i].Name.Space = EmptyStr
               /\ w[j].Name.Space # EmptyStr
               /\ Get(knownNames, w[j].Name.Space) # EmptyStr)
              => i < j

\* C34: on a well-nested stream (every EndElement closes an open
\* StartElement) Canonicalize never calls Pop on an empty namespace stack or
\* an empty rendered stack: both hold a frame whenever such an EndElement
\* arrives.  Pop on an empty stack is fatal, and it happens only for an
\* EndElement that arrives while no element is open.
C34_NoEmptyPop ==
    /\ [](pc = "panic" =>
            /\ last.res = "token" /\ last.tok.kind = "EndElement"
            /\ Len(openElems) = 0
            /\ StackLen(last.pre.knownNames) = 0 \/ StackLen(last.pre.renderedNames) = 0)
    /\ [][ (last'.res = "token" /\ last'.tok.kind = "EndElement" /\ openElems # <<>>) =>
              /\ StackLen(knownNames) > 0 /\ StackLen(renderedNames) > 0
              /\ pc' # "panic" ]_vars

\* The last EndElement of a document of two elements pops the last frame of
\* both stacks and the call returns.
C34_Witness ==
    /\ Succeeded /\ elems >= 2
    /\ last.res = "token" /\ last.tok.kind = "EndElement"
    /\ StackLen(last.pre.knownNames) = 1 /\ StackLen(last.pre.renderedNames) = 1
    /\ StackLen(knownNames) = 0 /\ StackLen(renderedNames) = 0

\* C35: Push followed by Pop is a round trip for lookups.  For both scope
\* stacks of every reachable state and the frames that are empty, that
\* shadow the default namespace or that shadow every prefix in scope with
\* another URI (and the frame the last token declares), after Push and Pop
\* (with or without a Get in between) the
\* depth and the URI Get returns for every prefix are those of before the
\* Push, and Peek returns the bindings of the frame that was innermost
\* before, nil when the stack was empty.
C35_PushPopRoundTrip ==
    \A s \in {knownNames, renderedNames} :
        \A f \in {[k \in K |-> <<122>>] :
                     K \in {{}, {EmptyStr}, UNION {DOMAIN s[i] : i \in 1..Len(s)}}}
                 \cup {DeclaredNames(last.tok.Attr)} :
            LET names == UNION {DOMAIN s[i] : i \in 1..Len(s)} \cup DOMAIN f
                             \cup {EmptyStr, <<122>>}
                back(u) ==
                    /\ StackLen(u) = StackLen(s)
                    /\ \A n \in names : Get(u, n) = Get(s, n)
                    /\ IF Len(s) = 0 THEN Peek(u) = "nil"
                       ELSE /\ Peek(u) = Peek(s)
                            /\ DOMAIN Peek(u) = DOMAIN s[Len(s)]
                            /\ \A k \in DOMAIN s[Len(s)] : Peek(u)[k] = s[Len(s)][k].value
            IN /\ back(Pop(Push(s, f)))
               /\ \A n \in DOMAIN f \cup {EmptyStr} : back(Pop(GetMark(Push(s, f), n)))

\* An inner element that declared a prefix anew has been closed: the frame
\* the canonicalizer pushed for it is popped and Get yields the enclosing
\* element's URI again.
C35_Witness ==
    /\ last.res = "token" /\ last.tok.kind = "EndElement" /\ pc = "loop"
    /\ StackLen(knownNames) > 0
    /\ \E n \in DOMAIN last.pre.knownNames[Len(last.pre.knownNames)] :
          /\ GetOk(knownNames, n)
          /\ Get(last.pre.knownNames, n) # Get(knownNames, n)

\* C36: determinism: for the same tokens every execution writes the same
\* bytes, whatever order the maps are iterated in.  From the state before
\* each StartElement, every order of the range over the resolved names
\* selects the same names to render and leaves the same rendered stack, and
\* every order of the range over namesToRender (the order in which the
\* pseudo-attributes reach the sort) writes the tag that was written and
\* leaves the stacks that were left.
C36_Deterministic ==
    IsStart =>
        LET t == last.tok
            names == DeclaredNames(t.Attr)
            known1 == Push(GetMark(last.pre.knownNames, EmptyStr), names)
            all == GetAll(known1)
        IN /\ \A seq \in Perms(DOMAIN all) :
                 LET r == RenderLoop(seq, all, names, VisiblyUsedNames(t),
                                     Get(last.pre.knownNames, EmptyStr),
                                     last.pre.renderedNames, {})
                 IN /\ r.namesToRender = DOMAIN renderedNames[Len(renderedNames)]
                    /\ Push(r.renderedNames, Peek(renderedNames)) = renderedNames
           /\ \A order \in Perms(DOMAIN renderedNames[Len(renderedNames)]) :
                 LET r == StartElement(last.pre, t, order)
                 IN /\ r.buf = buf
                    /\ r.written = last.written
                    /\ r.knownNames = knownNames
                    /\ r.renderedNames = renderedNames

\* An open tag with two namespace pseudo-attributes and an ordinary
\* attribute: namesToRender can be iterated in two orders.
C36_Witness ==
    /\ IsStart
    /\ Cardinality(DOMAIN renderedNames[Len(renderedNames)]) >= 2
    /\ \E i \in 1..Len(last.written) : ~getNamespace(last.written[i]).ok

\* C37: sorting an element's attributes changes nothing in the namespace
\* scope stack except used flags.  Sorting any arrangement of the attributes
\* of the last open tag against the namespace stack leaves its depth, the
\* key set of every frame and every URI as they are, and only sets flags;
\* and the stack left by the StartElement, whose attributes were sorted, has
\* the frames of the stack before it with their bindings, under one frame
\* holding the bindings the element declares.
C37_SortKeepsBindings ==
    IsStart =>
        /\ \A p \in Perms(Range(last.written)) :
              LET u == Sort([Stack |-> knownNames, Attrs |-> p]).Stack
              IN /\ StackLen(u) = StackLen(knownNames)
                 /\ \A i \in 1..Len(knownNames) :
                       /\ DOMAIN u[i] = DOMAIN knownNames[i]
                       /\ \A k \in DOMAIN knownNames[i] :
                             /\ u[i][k].value = knownNames[i][k].value
                             /\ knownNames[i][k].used => u[i][k].used
        /\ LET names == DeclaredNames(last.tok.Attr)
               old == last.pre.knownNames
           IN /\ StackLen(knownNames) = StackLen(old) + 1
              /\ \A i \in 1..Len(old) :
                    /\ DOMAIN knownNames[i] = DOMAIN old[i]
                    /\ \A k \in DOMAIN old[i] : knownNames[i][k].value = old[i][k].value
              /\ DOMAIN knownNames[Len(knownNames)] = DOMAIN names
              /\ \A k \in DOMAIN names : knownNames[Len(knownNames)][k].value = names[k]

\* Two prefixed ordinary attributes were sorted: Less resolved their prefixes
\* with Get, which marked the bindings of an enclosing element, and the
\* bindings are unchanged.
C37_Witness ==
    /\ IsStart /\ Len(knownNames) >= 2
    /\ \E i, j \in 1..Len(last.written) :
          /\ i # j
          /\ ~getNamespace(last.written[i]).ok /\ ~getNamespace(last.written[j]).ok
          /\ last.written[i].Name.Space # EmptyStr
          /\ last.written[j].Name.Space # EmptyStr
          /\ \E f \in 1..(Len(knownNames) - 1) :
                /\ last.written[i].Name.Space \in DOMAIN knownNames[f]
                /\ knownNames[f][last.written[i].Name.Space].used
                /\ knownNames[f][last.written[i].Name.Space].value
                     = last.pre.knownNames[f][last.written[i].Name.Space].value
====
